---- MODULE Spec2Model ----
(***************************************************************************)
(* Entity Resolution Engine of tribe-chief-of-staff.                       *)
(*                                                                         *)
(* The engine is EnhancedEntityService (services/enhancedEntityService.ts) *)
(* with the matcher of utils/fuzzyMatching.ts.  A resolveAttendee call is  *)
(* a process whose steps are the store queries it awaits; the store is the *)
(* PostgreSQL schema of the migrations (people, companies, person_aliases, *)
(* entity_overrides).                                                      *)
(*                                                                         *)
(* Strings are sequences of one-character strings.  Scores and confidences *)
(* are fixed-point numbers with six decimals (0.75 is 750000).             *)
(***************************************************************************)
EXTENDS Integers, Sequences, FiniteSets, TLC

(***************************************************************************)
(* Strings                                                                 *)
(***************************************************************************)

\* String.prototype.toLowerCase, one character
LowerChar(c) ==
  LET up == [A |-> "a", B |-> "b", C |-> "c", D |-> "d", E |-> "e", F |-> "f",
             G |-> "g", H |-> "h", I |-> "i", J |-> "j", K |-> "k", L |-> "l",
             M |-> "m", N |-> "n", O |-> "o", P |-> "p", Q |-> "q", R |-> "r",
             S |-> "s", T |-> "t", U |-> "u", V |-> "v", W |-> "w", X |-> "x",
             Y |-> "y", Z |-> "z"]
  IN IF c \in DOMAIN up THEN up[c] ELSE c

toLowerCase(s) == [i \in 1..Len(s) |-> LowerChar(s[i])]

RECURSIVE TrimLeft(_)
TrimLeft(s) == IF s # <<>> /\ Head(s) = " " THEN TrimLeft(Tail(s)) ELSE s

RECURSIVE TrimRight(_)
TrimRight(s) ==
  IF s # <<>> /\ s[Len(s)] = " " THEN TrimRight(SubSeq(s, 1, Len(s) - 1)) ELSE s

\* String.prototype.trim
trim(s) == TrimRight(TrimLeft(s))

AlphaNum ==
  {"a","b","c","d","e","f","g","h","i","j","k","l","m","n","o","p","q","r",
   "s","t","u","v","w","x","y","z","0","1","2","3","4","5","6","7","8","9"}

\* s.split(sep) for one-character separators (seps is the set of them):
\* always at least one piece
RECURSIVE SplitAcc(_, _, _, _)
SplitAcc(s, seps, cur, acc) ==
  IF s = <<>> THEN Append(acc, cur)
  ELSE IF Head(s) \in seps THEN SplitAcc(Tail(s), seps, <<>>, Append(acc, cur))
  ELSE SplitAcc(Tail(s), seps, Append(cur, Head(s)), acc)

Split(s, seps) == SplitAcc(s, seps, <<>>, <<>>)

\* s.split(/\s+/): pieces between runs of blanks; a leading or trailing run
\* leaves an empty piece, the empty string gives one empty piece
RECURSIVE SplitWsAcc(_, _, _, _)
SplitWsAcc(s, cur, acc, inRun) ==
  IF s = <<>> THEN Append(acc, cur)
  ELSE IF Head(s) = " "
       THEN IF inRun THEN SplitWsAcc(Tail(s), cur, acc, TRUE)
            ELSE SplitWsAcc(Tail(s), <<>>, Append(acc, cur), TRUE)
       ELSE SplitWsAcc(Tail(s), Append(cur, Head(s)), acc, FALSE)

SplitWs(s) == SplitWsAcc(s, <<>>, <<>>, FALSE)

RECURSIVE Join(_, _)
Join(parts, sep) ==
  IF parts = <<>> THEN <<>>
  ELSE IF Len(parts) = 1 THEN parts[1]
  ELSE parts[1] \o sep \o Join(Tail(parts), sep)

Range(s) == {s[i] : i \in 1..Len(s)}

\* [...new Set(tokens)]: first occurrences, in order
RECURSIVE DedupAcc(_, _)
DedupAcc(s, acc) ==
  IF s = <<>> THEN acc
  ELSE IF Head(s) \in Range(acc) THEN DedupAcc(Tail(s), acc)
  ELSE DedupAcc(Tail(s), Append(acc, Head(s)))

\* s.includes(sub)
Includes(s, sub) ==
  \E i \in 1..(Len(s) + 1) :
    i + Len(sub) - 1 <= Len(s) /\ SubSeq(s, i, i + Len(sub) - 1) = sub

\* s.charAt(0): the empty string when s is empty
CharAt0(s) == IF s = <<>> THEN <<>> ELSE <<s[1]>>

\* part.charAt(0).toUpperCase() + part.slice(1), 
Capitalize(s) ==
  LET up == [a |-> "A", b |-> "B", c |-> "C", d |-> "D", e |-> "E", f |-> "F",
             g |-> "G", h |-> "H", i |-> "I", j |-> "J", k |-> "K", l |-> "L",
             m |-> "M", n |-> "N", o |-> "O", p |-> "P", q |-> "Q", r |-> "R",
             s |-> "S", t |-> "T", u |-> "U", v |-> "V", w |-> "W", x |-> "X",
             y |-> "Y", z |-> "Z"]
  IN IF s = <<>> THEN <<>>
     ELSE <<IF s[1] \in DOMAIN up THEN up[s[1]] ELSE s[1]>> \o Tail(s)

Max(a, b) == IF a >= b THEN a ELSE b
Min(a, b) == IF a <= b THEN a ELSE b

(***************************************************************************)
(* utils/fuzzyMatching.ts                                                  *)
(***************************************************************************)

\* the value a missing (undefined / null) string has
Null == <<"\\0">>

\* a value that is no string (a number, say), where a string is expected
NotAString == <<"\\1">>

\* typeof s === 'string'
IsString(s) == s # Null /\ s # NotAString

\* JavaScript truthiness of an optional string
Truthy(s) == s # Null /\ s # <<>>

\* the greatest member of a set of scores, 0 for the empty set
SetMax(S) == IF S = {} THEN 0 ELSE CHOOSE m \in S : \A o \in S : o <= m

\* name.toLowerCase().trim().replace(/[^a-zA-Z0-9\s]/g, '')
CleanName(name) ==
  SelectSeq(trim(toLowerCase(name)), LAMBDA ch : ch \in AlphaNum \/ ch = " ")

\* cleanName.split(/\s+/).filter(part => part.length > 1)
NameParts(cleanName) == SelectSeq(SplitWs(cleanName), LAMBDA part : Len(part) > 1)

AbbreviationsWithoutLastInitial(first, last, parts) ==
  << CharAt0(first) \o <<" ">> \o last,
     CharAt0(first) \o <<" ">> \o CharAt0(last),
     Join([i \in 1..Len(parts) |-> CharAt0(parts[i])], <<" ">>) >>

\* "john s", "j smith", "j s" and the initials of every part
AbbreviationsOf(first, last, parts) ==
  << first \o <<" ">> \o CharAt0(last),
     CharAt0(first) \o <<" ">> \o last,
     CharAt0(first) \o <<" ">> \o CharAt0(last),
     Join([i \in 1..Len(parts) |-> CharAt0(parts[i])], <<" ">>) >>

PartsAndAbbreviations(parts) ==
  IF Len(parts) >= 2
  THEN parts \o AbbreviationsOf(parts[1], parts[Len(parts)], parts)
  ELSE parts

TokensOfCleanName(cleanName) ==
  IF cleanName = <<>> THEN <<>>
  ELSE DedupAcc(<<cleanName>> \o PartsAndAbbreviations(NameParts(cleanName)), <<>>)

\* what a caller sees when a string method is called on a value without it
TypeError == <<<<"TypeError">>>>

\* name.toLowerCase() ... : raises on a value that is no string
TokensOfString(name) ==
  IF ~IsString(name) THEN TypeError
  ELSE TokensOfCleanName(CleanName(name))

generateFuzzyTokens(name) ==
  IF ~Truthy(name) \/ ~IsString(name) THEN <<>>
  ELSE TokensOfString(name)

\* one row of the distance matrix: cur[j] is matrix[i][j-1]
RECURSIVE LevRow(_, _, _, _, _)
LevRow(prev, str1, ch, cur, j) ==
  IF j > Len(str1) THEN cur
  ELSE IF ch = str1[j]
       THEN LevRow(prev, str1, ch, Append(cur, prev[j]), j + 1)
       ELSE LevRow(prev, str1, ch,
                   Append(cur, 1 + Min(prev[j], Min(cur[j], prev[j + 1]))), j + 1)

RECURSIVE LevRows(_, _, _, _)
LevRows(str1, str2, prev, i) ==
  IF i > Len(str2) THEN prev[Len(str1) + 1]
  ELSE LevRows(str1, str2, LevRow(prev, str1, str2[i], <<i>>, 1), i + 1)

levenshteinDistance(str1, str2) ==
  LevRows(str1, str2, [k \in 1..(Len(str1) + 1) |-> k - 1], 1)

\* 1 - (distance / maxLength)
SimilarityOf(distance, maxLength) ==
  IF maxLength = 0 THEN 1000000
  ELSE ((maxLength - distance) * 1000000) \div maxLength

stringSimilarity(str1, str2) ==
  IF ~Truthy(str1) \/ ~Truthy(str2) THEN 0
  ELSE IF str1 = str2 THEN 1000000
  ELSE SimilarityOf(levenshteinDistance(toLowerCase(str1), toLowerCase(str2)),
                    Max(Len(str1), Len(str2)))

\* the maximum of stringSimilarity over every pair of the two token lists
BestPair(xs, ys) ==
  SetMax({stringSimilarity(xs[i], ys[j]) : i \in 1..Len(xs), j \in 1..Len(ys)})

\* the token comparisons against the candidate's name and against its aliases
TokenScore(inputTokens, candidateName, candidateAliases) ==
  Max(BestPair(inputTokens, generateFuzzyTokens(candidateName)),
      SetMax({BestPair(inputTokens, generateFuzzyTokens(candidateAliases[k]))
                : k \in 1..Len(candidateAliases)}))

\* (firstMatch + lastMatch) / 2 when firstMatch > 0.8 and lastMatch > 0.6
BoostOf(firstMatch, lastMatch) ==
  IF firstMatch > 800000 /\ lastMatch > 600000
  THEN (firstMatch + lastMatch) \div 2
  ELSE 0

PartsBoost(inputParts, candidateParts) ==
  IF Len(inputParts) >= 2 /\ Len(candidateParts) >= 2
  THEN BoostOf(stringSimilarity(inputParts[1], candidateParts[1]),
               stringSimilarity(inputParts[Len(inputParts)],
                                candidateParts[Len(candidateParts)]))
  ELSE 0

NameScoreOfClean(inputClean, candidateClean, inputName, candidateName, candidateAliases) ==
  IF inputClean = candidateClean THEN 1000000
  ELSE IF \E k \in 1..Len(candidateAliases) :
            inputClean = trim(toLowerCase(candidateAliases[k]))
       THEN 950000
  ELSE Max(TokenScore(generateFuzzyTokens(inputName), candidateName,
                      candidateAliases),
           PartsBoost(SplitWs(inputClean), SplitWs(candidateClean)))

calculateNameMatchScore(inputName, candidateName, candidateAliases) ==
  IF ~Truthy(inputName) \/ ~Truthy(candidateName) THEN 0
  ELSE NameScoreOfClean(trim(toLowerCase(inputName)),
                        trim(toLowerCase(candidateName)),
                        inputName, candidateName, candidateAliases)

\* piece k of email.split('@'): Null when there is no such piece
EmailPiece(pieces, k) == IF Len(pieces) >= k THEN pieces[k] ELSE Null

\* email.split('@')[1]
DomainOf(email) == EmailPiece(Split(email, {"@"}), 2)

\* domain?.toLowerCase()
LowerOrNull(s) == IF s = Null THEN Null ELSE toLowerCase(s)

DomainScore(domain1, domain2) ==
  IF ~Truthy(domain1) \/ ~Truthy(domain2) THEN 0
  ELSE IF domain1 = domain2 THEN 1000000
  ELSE stringSimilarity(domain1, domain2)

calculateEmailDomainScore(email1, email2) ==
  IF ~Truthy(email1) \/ ~Truthy(email2) THEN 0
  ELSE DomainScore(LowerOrNull(DomainOf(email1)), LowerOrNull(DomainOf(email2)))

personalDomains ==
  { <<"g","m","a","i","l",".","c","o","m">>,
    <<"y","a","h","o","o",".","c","o","m">>,
    <<"h","o","t","m","a","i","l",".","c","o","m">>,
    <<"o","u","t","l","o","o","k",".","c","o","m">>,
    <<"i","c","l","o","u","d",".","c","o","m">>,
    <<"m","e",".","c","o","m">>,
    <<"m","a","c",".","c","o","m">>,
    <<"a","o","l",".","c","o","m">>,
    <<"p","r","o","t","o","n","m","a","i","l",".","c","o","m">>,
    <<"f","a","s","t","m","a","i","l",".","c","o","m">>,
    <<"h","e","y",".","c","o","m">> }

\* every word capitalized, joined by blanks
TitleCase(words) ==
  Join([i \in 1..Len(words) |-> Capitalize(words[i])], <<" ">>)

\* the company name of a domain: Null for a personal domain or one without a
\* dot; the name of a domain that begins with a dot is empty
CompanyNameOfDomain(domain, domainParts) ==
  IF ~Truthy(domain) THEN Null
  ELSE IF domain \in personalDomains THEN Null
  ELSE IF Len(domainParts) >= 2 THEN TitleCase(Split(domainParts[1], {"-", "_"}))
  ELSE Null

CompanyNameOf(domain) ==
  CompanyNameOfDomain(domain, IF domain = Null THEN <<>> ELSE Split(domain, {"."}))

extractCompanyFromEmailDomain(email) ==
  IF ~Truthy(email) \/ ~Includes(email, <<"@">>) THEN Null
  ELSE CompanyNameOf(LowerOrNull(DomainOf(email)))

\* step 2 of a candidate: the domain similarity
DomainStep(domainScore) ==
  IF domainScore > 800000
  THEN [score |-> (domainScore * 7) \div 10, matchType |-> "email_domain"]
  ELSE [score |-> 0, matchType |-> "fuzzy_name"]

\* steps 1 and 2 of a candidate: the email
EmailStep(inputEmail, candidateEmail) ==
  IF Truthy(inputEmail) /\ Truthy(candidateEmail)
  THEN IF toLowerCase(inputEmail) = toLowerCase(candidateEmail)
       THEN [score |-> 1000000, matchType |-> "exact_email"]
       ELSE DomainStep(calculateEmailDomainScore(inputEmail, candidateEmail))
  ELSE [score |-> 0, matchType |-> "fuzzy_name"]

\* step 3: bestScore = Math.max(bestScore, 0.95), typed exact_name when that
\* is 0.95
ExactNameStep(inputName, candidateName, best) ==
  IF Truthy(inputName) /\ toLowerCase(inputName) = toLowerCase(candidateName)
  THEN IF best.score <= 950000
       THEN [score |-> 950000, matchType |-> "exact_name"]
       ELSE best
  ELSE best

\* step 4: the name score replaces a smaller best score
FuzzyNameStep(inputName, nameScore, best) ==
  IF Truthy(inputName) /\ nameScore > best.score
  THEN [score |-> nameScore,
        matchType |-> IF nameScore > 900000 THEN "alias" ELSE "fuzzy_name"]
  ELSE best

\* the score and type findBestMatches gives one candidate
MatchOne(inputName, inputEmail, candidate) ==
  FuzzyNameStep(inputName,
                calculateNameMatchScore(inputName, candidate.name, candidate.aliases),
                ExactNameStep(inputName, candidate.name,
                              EmailStep(inputEmail, candidate.email)))

\* Array.prototype.sort with (a, b) => b.score - a.score: stable, descending
RECURSIVE InsertByScore(_, _)
InsertByScore(sorted, r) ==
  IF sorted = <<>> THEN <<r>>
  ELSE IF Head(sorted).score >= r.score
       THEN <<Head(sorted)>> \o InsertByScore(Tail(sorted), r)
       ELSE <<r>> \o sorted

\* the results as they were pushed, not sorted
Unsorted(rs, acc) == acc \o rs

RECURSIVE SortByScore(_, _)
SortByScore(rs, acc) ==
  IF rs = <<>> THEN acc ELSE SortByScore(Tail(rs), InsertByScore(acc, Head(rs)))

\* one result entry of findBestMatches
MatchResult(candidate, m) ==
  [candidate |-> candidate, score |-> m.score, matchType |-> m.matchType]

\* `input.displayName || input.name || ''`, `input.email || ''`
OrEmpty(s) == IF Truthy(s) THEN s ELSE <<>>

\* input is [email, displayName]
findBestMatches(input, candidates, threshold) ==
  SortByScore(
    SelectSeq([i \in 1..Len(candidates) |->
                 MatchResult(candidates[i],
                             MatchOne(OrEmpty(input.displayName),
                                      OrEmpty(input.email), candidates[i]))],
              LAMBDA r : r.score >= threshold),
    <<>>)

(***************************************************************************)
(* The attendees the model resolves and the store contents it starts from  *)
(***************************************************************************)

Empty == <<>>
RawAL == <<" ","A","l","@","I","n",".","c","o">>
AL == <<"a","l","@","i","n",".","c","o">>
AT == <<"a","t","@","i","n",".","c","o">>
SA == <<"s","a","@","n","u",".","c","o">>
U == <<"u","@","m","e",".","c","o","m">>
B == <<"b","@","t","r","i","b","e">>
AlTo == <<"A","l"," ","T","o">>
BoXu == <<"B","o"," ","X","u">>
InCo == <<"i","n",".","c","o">>
TribeCom == <<"t","r","i","b","e",".","c","o","m">>
TribeName == <<"T","r","i","b","e">>
InName == <<"I","n">>

\* the (email, displayName) pairs a caller passes; a Null email is a missing one
Attendees ==
  ({RawAL, AT, SA, U, B, Empty} \X {Null, AlTo, BoXu}) \cup {<<Null, Null>>}

\* migration 004 inserts the internal company
TribeCompany ==
  [name |-> TribeName, domain |-> TribeCom, company_type |-> "internal"]

InCompany == [name |-> InName, domain |-> InCo, company_type |-> "customer"]

\* the company a domain_match for an address at tribe.io has created
TribeIoCompany ==
  [name |-> TribeName, domain |-> <<"t","r","i","b","e",".","i","o">>,
   company_type |-> "customer"]

AlToPerson ==
  [name |-> AlTo, emails |-> <<AL>>, company_id |-> 2, confidence |-> 900000,
   interaction_count |-> 3, last_interaction |-> "earlier",
   entity_status |-> "active", person_type |-> "external"]

\* entity_overrides rows in created_at order (the newest last); target 0 is a
\* row without target_person_id (a company assignment)
InitStores ==
  { [people |-> <<>>, companies |-> <<TribeCompany>>, overrides |-> <<>>],
    [people |-> <<>>, companies |-> <<TribeCompany, TribeIoCompany>>,
     overrides |-> <<>>],
    [people |-> <<AlToPerson>>, companies |-> <<TribeCompany, InCompany>>,
     overrides |-> <<>>],
    [people |-> <<AlToPerson>>, companies |-> <<TribeCompany, InCompany>>,
     overrides |-> << [source_identifier |-> AT, target_person_id |-> 1,
                       confidence |-> 1000000],
                      [source_identifier |-> BoXu, target_person_id |-> 1,
                       confidence |-> 600000] >>],
    [people |-> <<AlToPerson>>, companies |-> <<TribeCompany, InCompany>>,
     overrides |-> << [source_identifier |-> AT, target_person_id |-> 1,
                       confidence |-> 1000000],
                      [source_identifier |-> AT, target_person_id |-> 0,
                       confidence |-> 1000000] >>] }

MaxCalls == 2
MaxFailures == 4
MaxOverlapFailures == 1
Procs == {1, 2}

(***************************************************************************)
(* State                                                                   *)
(***************************************************************************)

VARIABLES
  people,               \* table people, by id
  companies,            \* table companies, by id
  aliases,              \* table person_aliases, in insertion order
  overrides,            \* table entity_overrides, in created_at order
  useDatabaseFallback,  \* TRUE while the engine uses the database
  personMemoryStore,    \* the in-memory Map of persons
  calls,                \* each caller's resolveAttendee call
  prev,                 \* the call completed before the running one, and the
                        \* emails resolved by domain_match so far
  ncalls,               \* calls started
  nfail,                \* store queries that failed
  storeFails,           \* whether store queries may fail
  concurrent,           \* whether calls may overlap
  scoring,              \* an application of calculateEnhancedConfidence
  matching              \* an application of the matcher of fuzzyMatching.ts

vars == <<people, companies, aliases, overrides, useDatabaseFallback,
          personMemoryStore, calls, prev, ncalls, nfail, storeFails, concurrent, scoring, matching>>

NoPerson == [store |-> "none", id |-> 0]

\* the scorer and the matcher are not being applied
NoScoring == [pc |-> "unused"]
NoMatching == [pc |-> "unused"]

NoResult ==
  [person |-> NoPerson, confidence |-> 0, method |-> "none",
   created_new_entity |-> FALSE]

NoSnapshot ==
  [people |-> <<>>, companies |-> <<>>, aliases |-> <<>>,
   personMemoryStore |-> <<>>, useDatabaseFallback |-> TRUE]

Snapshot ==
  [people |-> people, companies |-> companies, aliases |-> aliases,
   personMemoryStore |-> personMemoryStore,
   useDatabaseFallback |-> useDatabaseFallback]

IdleCall ==
  [pc |-> "idle", rawEmail |-> Null, email |-> Null, displayName |-> Null,
   row |-> 0, person |-> NoPerson, confidence |-> 0, score |-> 0,
   matchType |-> "none", company |-> 0, companyName |-> Null,
   personType |-> "external", result |-> NoResult, pre |-> NoSnapshot,
   trace |-> <<>>]

NoPrev ==
  [email |-> Null, displayName |-> Null, pc |-> "idle", result |-> NoResult,
   pre |-> NoSnapshot, domainMatched |-> {}]

InitWith(fails, conc) ==
  /\ \E s \in InitStores :
       /\ people = s.people
       /\ companies = s.companies
       /\ overrides = s.overrides
  /\ aliases = <<>>
  /\ useDatabaseFallback = TRUE
  /\ personMemoryStore = <<>>
  /\ calls = [p \in Procs |-> IdleCall]
  /\ prev = NoPrev
  /\ ncalls = 0
  /\ nfail = 0
  /\ storeFails = fails
  /\ concurrent = conc
  /\ scoring = NoScoring
  /\ matching = NoMatching

Init == InitWith(FALSE, FALSE)
InitFail == InitWith(TRUE, FALSE)
InitConc == InitWith(FALSE, TRUE)
InitConcFail == InitWith(TRUE, TRUE)

(***************************************************************************)
(* services/enhancedEntityService.ts: the helpers of the orchestrator      *)
(***************************************************************************)

FuzzyThreshold == 700000
KnownCompanyConfidence == 750000
NewCompanyConfidence == 700000
UnknownConfidence == 250000
InternalConfidence == 800000
DefaultConfidence == 500000

\* const cleanEmail = email.toLowerCase().trim()
cleanEmail(email) == trim(toLowerCase(email))

isPersonalEmailDomain(domain) == toLowerCase(domain) \in personalDomains

extractNameFromEmail(email) ==
  LET localPart == Split(email, {"@"})[1]
      pieces == Split(localPart, {"."})
  IN IF Includes(localPart, <<".">>)
     THEN Join([i \in 1..Len(pieces) |-> Capitalize(pieces[i])], <<" ">>)
     ELSE Capitalize(localPart)

\* displayName || this.extractNameFromEmail(email)
PersonName(email, displayName) ==
  IF Truthy(displayName) THEN displayName ELSE extractNameFromEmail(email)

\* whether store queries issued now may fail
\* how many store queries may fail in one behaviour
FailureBudget == IF concurrent THEN MaxOverlapFailures ELSE MaxFailures

FailChoices(issued) ==
  IF issued /\ storeFails /\ nfail < FailureBudget THEN {FALSE, TRUE} ELSE {FALSE}

\* ORDER BY ... DESC NULLS LAST on last_interaction
DateRank(d) == CASE d = "never" -> 0 [] d = "earlier" -> 1 [] d = "today" -> 2

\* row i comes no later than row j under
\* ORDER BY p.confidence DESC, p.last_interaction DESC NULLS LAST
SqlBefore(i, j) ==
  \/ people[i].confidence > people[j].confidence
  \/ /\ people[i].confidence = people[j].confidence
     /\ DateRank(people[i].last_interaction) >= DateRank(people[j].last_interaction)

\* the orders in which the database may return the rows ids
RECURSIVE SqlOrders(_)
SqlOrders(ids) ==
  IF ids = {} THEN {<<>>}
  ELSE UNION { {<<x>> \o rest : rest \in SqlOrders(ids \ {x})}
                 : x \in {i \in ids : \A j \in ids : SqlBefore(i, j)} }

ActivePeople == {i \in DOMAIN people : people[i].entity_status = "active"}

\* the entity_overrides row checkManualOverride reads: the newest one whose
\* source_identifier is the email or the display name; 0 when there is none
OverrideRow(email, displayName) ==
  LET hits == {k \in DOMAIN overrides :
                 \/ overrides[k].source_identifier = email
                 \/ /\ displayName # Null
                    /\ overrides[k].source_identifier = displayName}
  IN IF hits = {} THEN 0 ELSE CHOOSE k \in hits : \A o \in hits : o <= k

\* `SELECT eo.*, p.*`: the joined person's confidence column comes last and
\* replaces the override's own under the key "confidence" of the row object
OverrideRowConfidence(row) ==
  people[overrides[row].target_person_id].confidence

\* parseFloat(row.confidence) || 1.0
overrideConfidence(rowConfidence) ==
  IF rowConfidence = 0 THEN 1000000 ELSE rowConfidence

\* the rows findPersonByEmail may get under its ORDER BY ... LIMIT 1
PersonsByEmail(email) ==
  LET hits == {i \in ActivePeople : toLowerCase(email) \in Range(people[i].emails)}
  IN {i \in hits : \A j \in hits : SqlBefore(i, j)}

\* the match candidate performFuzzyMatching makes of the row of person i
CandidateOf(ppl, als, i) ==
  LET mine == SelectSeq(als, LAMBDA a : a.person_id = i)
      alias_names == [k \in 1..Len(mine) |-> mine[k].alias_name]
      alias_emails == SelectSeq([k \in 1..Len(mine) |-> mine[k].alias_email], Truthy)
      emails == ppl[i].emails
  IN [id |-> i,
      name |-> ppl[i].name,
      email |-> IF emails = <<>> THEN Null ELSE emails[1],
      aliases |-> SelectSeq(alias_names \o (IF emails = <<>> THEN <<>> ELSE Tail(emails))
                              \o alias_emails, Truthy)]

Candidate(i) == CandidateOf(people, aliases, i)

\* DECIMAL(3,2): two decimals, half away from zero
Decimal2(x) == ((x + 5000) \div 10000) * 10000

\* an update that stamps the time and leaves the count
updatePersonInteractionKeepingCount(ppl, id) ==
  [ppl EXCEPT ![id].last_interaction = "today"]

\* an update that starts the count again
updatePersonInteractionResettingCount(ppl, id) ==
  [ppl EXCEPT ![id].interaction_count = 0, ![id].last_interaction = "today"]

\* UPDATE people SET interaction_count = interaction_count + 1, ...
updatePersonInteraction(ppl, id) ==
  [ppl EXCEPT ![id].interaction_count = @ + 1, ![id].last_interaction = "today"]

\* the rows createAliasRecord's existence check finds
ExistingAliases(personId, aliasName, aliasEmail) ==
  {k \in DOMAIN aliases :
     /\ aliases[k].person_id = personId
     /\ \/ aliasName # Null /\ aliases[k].alias_name = aliasName
        \/ aliasEmail # Null /\ aliases[k].alias_email = aliasEmail}

\* the rows of `SELECT * FROM companies WHERE domain = $1`
CompaniesByDomain(domain) ==
  {k \in DOMAIN companies : companies[k].domain = toLowerCase(domain)}

\* the rows findTribeCompany may get: company_type = 'internal' OR name ILIKE
\* '%tribe%', ORDER BY company_type LIMIT 1 ('customer' sorts before 'internal')
TribeCompanies ==
  LET TypeRank(t) == IF t = "customer" THEN 0 ELSE 1
      hits == {k \in DOMAIN companies :
                 \/ companies[k].company_type = "internal"
                 \/ Includes(toLowerCase(companies[k].name), <<"t","r","i","b","e">>)}
  IN {k \in hits : \A o \in hits :
        TypeRank(companies[k].company_type) <= TypeRank(companies[o].company_type)}

\* a createPerson that persists no email of the new Person
StoredNoEmails(data) == <<>>

\* createPerson: the emails of the new Person, `emails: data.emails`
StoredEmails(data) == data.emails

\* createPerson: the INSERT while the engine uses the database, the memory
\* store after the INSERT failed or once the engine is degraded; never throws
createPerson(data, fail) ==
  LET conf == IF data.confidence = 0 THEN DefaultConfidence ELSE data.confidence
      row == [name |-> data.name, emails |-> StoredEmails(data),
              company_id |-> data.company_id, confidence |-> Decimal2(conf),
              interaction_count |-> 0, last_interaction |-> "never",
              entity_status |-> "active", person_type |-> data.person_type]
      obj == [name |-> data.name, emails |-> StoredEmails(data),
              company_id |-> data.company_id, confidence |-> conf,
              interaction_count |-> 0, last_interaction |-> "never"]
  IN IF useDatabaseFallback /\ ~fail
     THEN [people |-> Append(people, row),
           personMemoryStore |-> personMemoryStore,
           useDatabaseFallback |-> TRUE,
           person |-> [store |-> "db", id |-> Len(people) + 1]]
     ELSE [people |-> people,
           personMemoryStore |-> Append(personMemoryStore, obj),
           useDatabaseFallback |-> FALSE,
           person |-> [store |-> "mem", id |-> Len(personMemoryStore) + 1]]

\* resolveByCompanyDomain without its try/catch: the exception of
\* createCompany reaches the caller of resolveAttendee
resolveByCompanyDomainRethrows == "raised"

\* where resolveAttendee goes on when createCompany throws: the catch of
\* resolveByCompanyDomain returns null, and createSmartNewPerson follows
resolveByCompanyDomainCatch == "smart"

(***************************************************************************)
(* resolveAttendee, one action for each store query it awaits              *)
(***************************************************************************)

Running(p) == calls[p].pc \notin {"idle", "done", "raised"}

\* the call goes on at pc
Goto(c, step, pc) == [c EXCEPT !.pc = pc, !.trace = Append(@, step)]

\* the call returns result
Return(c, step, result) ==
  [c EXCEPT !.pc = "done", !.trace = Append(@, step), !.result = result]

Failed(fail) == IF fail THEN nfail + 1 ELSE nfail

\* a caller invokes resolveAttendee(email, displayName); a missing email
\* raises a TypeError at email.toLowerCase()
Begin(p) ==
  /\ ~Running(p)
  /\ ncalls < MaxCalls
  /\ concurrent \/ (p = 1 /\ \A q \in Procs : ~Running(q))
  /\ \E a \in Attendees :
       LET fresh == [IdleCall EXCEPT !.rawEmail = a[1], !.displayName = a[2],
                                     !.pre = Snapshot]
       IN calls' = [calls EXCEPT ![p] =
                      IF a[1] = Null
                      THEN [fresh EXCEPT !.pc = "raised"]
                      ELSE [fresh EXCEPT !.pc = "override",
                                         !.email = cleanEmail(a[1])]]
  /\ prev' = IF calls[p].pc \in {"done", "raised"}
             THEN [email |-> calls[p].email, displayName |-> calls[p].displayName,
                   pc |-> calls[p].pc, result |-> calls[p].result,
                   pre |-> calls[p].pre,
                   domainMatched |->
                     IF calls[p].result.method = "domain_match"
                     THEN prev.domainMatched \cup {calls[p].email}
                     ELSE prev.domainMatched]
             ELSE prev
  /\ ncalls' = ncalls + 1
  /\ UNCHANGED <<people, companies, aliases, overrides, useDatabaseFallback,
                 personMemoryStore, nfail, storeFails, concurrent, scoring, matching>>

\* checkManualOverride: the lookup in entity_overrides
CheckManualOverride(p) ==
  LET c == calls[p] IN
  /\ c.pc = "override"
  /\ \E fail \in FailChoices(useDatabaseFallback) :
       LET row == OverrideRow(c.email, c.displayName) IN
       /\ calls' = [calls EXCEPT ![p] =
            IF ~useDatabaseFallback \/ fail \/ row = 0
            THEN Goto(c, "checkManualOverride", "byEmail")
            ELSE IF overrides[row].target_person_id = 0
            THEN Goto(c, "checkManualOverride", "byEmail")
            ELSE [Goto(c, "checkManualOverride", "overridePerson")
                    EXCEPT !.row = row, !.confidence = OverrideRowConfidence(row)]]
       /\ nfail' = Failed(fail)
  /\ UNCHANGED <<people, companies, aliases, overrides, useDatabaseFallback,
                 personMemoryStore, prev, ncalls, storeFails, concurrent, scoring, matching>>

\* checkManualOverride: findPersonById of the override's target
OverridePerson(p) ==
  LET c == calls[p]
      target == overrides[c.row].target_person_id
  IN
  /\ c.pc = "overridePerson"
  /\ \E fail \in FailChoices(useDatabaseFallback) :
       /\ calls' = [calls EXCEPT ![p] =
            IF ~useDatabaseFallback \/ fail \/ target \notin DOMAIN people
            THEN Goto(c, "findPersonById", "byEmail")
            ELSE Return(c, "findPersonById",
                        [person |-> [store |-> "db", id |-> target],
                         confidence |-> overrideConfidence(c.confidence),
                         method |-> "manual_override",
                         created_new_entity |-> FALSE])]
       /\ nfail' = Failed(fail)
  /\ UNCHANGED <<people, companies, aliases, overrides, useDatabaseFallback,
                 personMemoryStore, prev, ncalls, storeFails, concurrent, scoring, matching>>

\* findPersonByEmail: a failed query degrades the engine
FindPersonByEmail(p) ==
  LET c == calls[p] IN
  /\ c.pc = "byEmail"
  /\ \E fail \in FailChoices(useDatabaseFallback) :
       LET hits == IF ~useDatabaseFallback \/ fail THEN {}
                   ELSE PersonsByEmail(c.email)
       IN
       /\ \E i \in (IF hits = {} THEN {0} ELSE hits) :
            calls' = [calls EXCEPT ![p] =
              IF i = 0
              THEN Goto(c, "findPersonByEmail", "fuzzyLoad")
              ELSE [Goto(c, "findPersonByEmail", "updExact")
                      EXCEPT !.person = [store |-> "db", id |-> i],
                             !.confidence = people[i].confidence]]
       /\ useDatabaseFallback' = (useDatabaseFallback /\ ~fail)
       /\ nfail' = Failed(fail)
  /\ UNCHANGED <<people, companies, aliases, overrides, personMemoryStore,
                 prev, ncalls, storeFails, concurrent, scoring, matching>>

\* the exact-email step: updatePersonInteraction, then the result
UpdateExactInteraction(p) ==
  LET c == calls[p] IN
  /\ c.pc = "updExact"
  /\ \E fail \in FailChoices(useDatabaseFallback) :
       /\ people' = IF useDatabaseFallback /\ ~fail
                    THEN updatePersonInteraction(people, c.person.id)
                    ELSE people
       /\ nfail' = Failed(fail)
  /\ calls' = [calls EXCEPT ![p] =
       Return(c, "updatePersonInteraction",
              [person |-> c.person, confidence |-> c.confidence,
               method |-> "exact_email", created_new_entity |-> FALSE])]
  /\ UNCHANGED <<companies, aliases, overrides, useDatabaseFallback,
                 personMemoryStore, prev, ncalls, storeFails, concurrent, scoring, matching>>

\* performFuzzyMatching: load the candidates and rank them
PerformFuzzyMatching(p) ==
  LET c == calls[p]
      issued == useDatabaseFallback /\ Truthy(c.displayName)
  IN
  /\ c.pc = "fuzzyLoad"
  /\ \E fail \in FailChoices(issued) :
       /\ \E rows \in SqlOrders(IF issued /\ ~fail THEN ActivePeople ELSE {}) :
            LET candidates == [k \in 1..Len(rows) |-> Candidate(rows[k])]
                matches == findBestMatches(
                             [email |-> c.email, displayName |-> c.displayName],
                             candidates, FuzzyThreshold)
            IN calls' = [calls EXCEPT ![p] =
                 IF ~issued
                 THEN Goto(c, "skipFuzzyMatching", "company")
                 ELSE IF matches = <<>>
                 THEN Goto(c, "performFuzzyMatching", "company")
                 ELSE [Goto(c, "performFuzzyMatching", "fuzzyPerson")
                         EXCEPT !.person = [store |-> "db",
                                            id |-> matches[1].candidate.id],
                                !.score = matches[1].score,
                                !.matchType = matches[1].matchType]]
       /\ nfail' = Failed(fail)
  /\ UNCHANGED <<people, companies, aliases, overrides, useDatabaseFallback,
                 personMemoryStore, prev, ncalls, storeFails, concurrent, scoring, matching>>

\* performFuzzyMatching: findPersonById of the best match
FuzzyFindPerson(p) ==
  LET c == calls[p] IN
  /\ c.pc = "fuzzyPerson"
  /\ \E fail \in FailChoices(useDatabaseFallback) :
       /\ calls' = [calls EXCEPT ![p] =
            IF ~useDatabaseFallback \/ fail \/ c.person.id \notin DOMAIN people
            THEN [Goto(c, "findPersonById", "company") EXCEPT !.person = NoPerson]
            ELSE Goto(c, "findPersonById", "fuzzyUpd")]
       /\ nfail' = Failed(fail)
  /\ UNCHANGED <<people, companies, aliases, overrides, useDatabaseFallback,
                 personMemoryStore, prev, ncalls, storeFails, concurrent, scoring, matching>>

\* performFuzzyMatching: updatePersonInteraction of the matched person
FuzzyUpdateInteraction(p) ==
  LET c == calls[p] IN
  /\ c.pc = "fuzzyUpd"
  /\ \E fail \in FailChoices(useDatabaseFallback) :
       /\ people' = IF useDatabaseFallback /\ ~fail
                    THEN updatePersonInteraction(people, c.person.id)
                    ELSE people
       /\ nfail' = Failed(fail)
  /\ calls' = [calls EXCEPT ![p] = Goto(c, "updatePersonInteraction", "aliasCheck")]
  /\ UNCHANGED <<companies, aliases, overrides, useDatabaseFallback,
                 personMemoryStore, prev, ncalls, storeFails, concurrent, scoring, matching>>

\* a result that carries the stored confidence of a new person instead
FuzzyResultDefaultConfidence(c) ==
  [person |-> c.person, confidence |-> DefaultConfidence,
   method |-> IF c.matchType = "alias" THEN "alias_match" ELSE "fuzzy_name",
   created_new_entity |-> FALSE]

\* a fuzzy result that says a new entity was created
FuzzyResultNewEntity(c) ==
  [person |-> c.person, confidence |-> c.score,
   method |-> IF c.matchType = "alias" THEN "alias_match" ELSE "fuzzy_name",
   created_new_entity |-> TRUE]

\* what performFuzzyMatching returns once the alias is dealt with
FuzzyResult(c) ==
  [person |-> c.person, confidence |-> c.score,
   method |-> IF c.matchType = "alias" THEN "alias_match" ELSE "fuzzy_name",
   created_new_entity |-> FALSE]

\* createAliasRecord: the existence check
AliasCheck(p) ==
  LET c == calls[p]
      issued == useDatabaseFallback /\ (Truthy(c.displayName) \/ Truthy(c.email))
  IN
  /\ c.pc = "aliasCheck"
  /\ \E fail \in FailChoices(issued) :
       /\ calls' = [calls EXCEPT ![p] =
            IF ~issued \/ fail
               \/ ExistingAliases(c.person.id, c.displayName, c.email) # {}
            THEN Return(c, "createAliasRecord", FuzzyResult(c))
            ELSE Goto(c, "createAliasRecord", "aliasInsert")]
       /\ nfail' = Failed(fail)
  /\ UNCHANGED <<people, companies, aliases, overrides, useDatabaseFallback,
                 personMemoryStore, prev, ncalls, storeFails, concurrent, scoring, matching>>

\* createAliasRecord: the INSERT INTO person_aliases
AliasInsert(p) ==
  LET c == calls[p] IN
  /\ c.pc = "aliasInsert"
  /\ \E fail \in FailChoices(TRUE) :
       /\ aliases' = IF fail THEN aliases
                     ELSE Append(aliases,
                            [person_id |-> c.person.id, alias_name |-> c.displayName,
                             alias_email |-> c.email, context |-> "calendar",
                             confidence |-> Decimal2(c.score)])
       /\ nfail' = Failed(fail)
  /\ calls' = [calls EXCEPT ![p] = Return(c, "insertAlias", FuzzyResult(c))]
  /\ UNCHANGED <<people, companies, overrides, useDatabaseFallback,
                 personMemoryStore, prev, ncalls, storeFails, concurrent, scoring, matching>>

\* resolveByCompanyDomain: the domain test and findCompanyByDomain
ResolveByCompanyDomain(p) ==
  LET c == calls[p]
      emailDomain == DomainOf(c.email)
      eligible == Truthy(emailDomain) /\ ~isPersonalEmailDomain(emailDomain)
      issued == eligible /\ useDatabaseFallback
      inferredCompanyName == extractCompanyFromEmailDomain(c.email)
  IN
  /\ c.pc = "company"
  /\ \E fail \in FailChoices(issued) :
       LET hits == IF issued /\ ~fail THEN CompaniesByDomain(emailDomain) ELSE {}
       IN
       /\ \E k \in (IF hits = {} THEN {0} ELSE hits) :
            calls' = [calls EXCEPT ![p] =
              IF ~eligible
              THEN Goto(c, "skipCompanyDomain", "smart")
              ELSE IF k # 0
              THEN [Goto(c, "findCompanyByDomain", "createPersonDomain")
                      EXCEPT !.company = k, !.confidence = KnownCompanyConfidence]
              ELSE IF Truthy(inferredCompanyName)
              THEN [Goto(c, "findCompanyByDomain", "createCompany")
                      EXCEPT !.companyName = inferredCompanyName]
              ELSE Goto(c, "findCompanyByDomain", "smart")]
       /\ nfail' = Failed(fail)
  /\ UNCHANGED <<people, companies, aliases, overrides, useDatabaseFallback,
                 personMemoryStore, prev, ncalls, storeFails, concurrent, scoring, matching>>

\* resolveByCompanyDomain: createCompany, which throws when the engine is
\* degraded or the INSERT fails
CreateCompany(p) ==
  LET c == calls[p]
      emailDomain == DomainOf(c.email)
  IN
  /\ c.pc = "createCompany"
  /\ \E fail \in FailChoices(useDatabaseFallback) :
       LET thrown == ~useDatabaseFallback \/ fail IN
       /\ companies' = IF thrown THEN companies
                       ELSE Append(companies,
                              [name |-> c.companyName, domain |-> emailDomain,
                               company_type |-> "customer"])
       /\ calls' = [calls EXCEPT ![p] =
            IF thrown
            THEN Goto(c, "createCompanyThrows", resolveByCompanyDomainCatch)
            ELSE [Goto(c, "createCompany", "createPersonDomain")
                    EXCEPT !.company = Len(companies) + 1,
                           !.confidence = NewCompanyConfidence]]
       /\ nfail' = Failed(fail)
  /\ UNCHANGED <<people, aliases, overrides, useDatabaseFallback,
                 personMemoryStore, prev, ncalls, storeFails, concurrent, scoring, matching>>

\* resolveByCompanyDomain: createPerson, then the domain_match result
CreatePersonDomain(p) ==
  LET c == calls[p] IN
  /\ c.pc = "createPersonDomain"
  /\ \E fail \in FailChoices(useDatabaseFallback) :
       LET out == createPerson([name |-> PersonName(c.email, c.displayName),
                                emails |-> <<c.email>>, company_id |-> c.company,
                                person_type |-> "external",
                                confidence |-> c.confidence], fail)
       IN
       /\ people' = out.people
       /\ personMemoryStore' = out.personMemoryStore
       /\ useDatabaseFallback' = out.useDatabaseFallback
       /\ calls' = [calls EXCEPT ![p] =
            Return(c, "createPerson",
                   [person |-> out.person, confidence |-> c.confidence,
                    method |-> "domain_match", created_new_entity |-> TRUE])]
       /\ nfail' = Failed(fail)
  /\ UNCHANGED <<companies, aliases, overrides, prev, ncalls, storeFails,
                 concurrent, scoring, matching>>

\* createSmartNewPerson: the internal-company test and findTribeCompany
FindTribeCompany(p) ==
  LET c == calls[p]
      emailDomain == DomainOf(c.email)
      internal == Truthy(emailDomain)
                  /\ Includes(toLowerCase(emailDomain), <<"t","r","i","b","e">>)
      issued == internal /\ useDatabaseFallback
  IN
  /\ c.pc = "smart"
  /\ \E fail \in FailChoices(issued) :
       LET hits == IF issued /\ ~fail THEN TribeCompanies ELSE {} IN
       /\ \E k \in (IF hits = {} THEN {0} ELSE hits) :
            calls' = [calls EXCEPT ![p] =
              IF internal
              THEN [Goto(c, "findTribeCompany", "createPersonSmart")
                      EXCEPT !.personType = "internal", !.company = k,
                             !.confidence = InternalConfidence]
              ELSE [Goto(c, "createSmartNewPerson", "createPersonSmart")
                      EXCEPT !.personType = "external", !.company = 0,
                             !.confidence = UnknownConfidence]]
       /\ nfail' = Failed(fail)
  /\ UNCHANGED <<people, companies, aliases, overrides, useDatabaseFallback,
                 personMemoryStore, prev, ncalls, storeFails, concurrent, scoring, matching>>

\* createSmartNewPerson: createPerson, then the result
CreatePersonSmart(p) ==
  LET c == calls[p] IN
  /\ c.pc = "createPersonSmart"
  /\ \E fail \in FailChoices(useDatabaseFallback) :
       LET out == createPerson([name |-> PersonName(c.email, c.displayName),
                                emails |-> <<c.email>>, company_id |-> c.company,
                                person_type |-> c.personType,
                                confidence |-> c.confidence], fail)
       IN
       /\ people' = out.people
       /\ personMemoryStore' = out.personMemoryStore
       /\ useDatabaseFallback' = out.useDatabaseFallback
       /\ calls' = [calls EXCEPT ![p] =
            Return(c, "createPerson",
                   [person |-> out.person, confidence |-> c.confidence,
                    method |-> IF c.personType = "internal"
                               THEN "internal_inference" ELSE "unresolved",
                    created_new_entity |-> TRUE])]
       /\ nfail' = Failed(fail)
  /\ UNCHANGED <<companies, aliases, overrides, prev, ncalls, storeFails,
                 concurrent, scoring, matching>>

Next ==
  \E p \in Procs :
    \/ Begin(p)
    \/ CheckManualOverride(p)
    \/ OverridePerson(p)
    \/ FindPersonByEmail(p)
    \/ UpdateExactInteraction(p)
    \/ PerformFuzzyMatching(p)
    \/ FuzzyFindPerson(p)
    \/ FuzzyUpdateInteraction(p)
    \/ AliasCheck(p)
    \/ AliasInsert(p)
    \/ ResolveByCompanyDomain(p)
    \/ CreateCompany(p)
    \/ CreatePersonDomain(p)
    \/ FindTribeCompany(p)
    \/ CreatePersonSmart(p)

\* one caller, calls in sequence, the store answers every query
Spec == Init /\ [][Next]_vars

\* one caller, calls in sequence, store queries may fail
SpecFail == InitFail /\ [][Next]_vars

\* two callers whose calls overlap, the store answers every query
SpecConc == InitConc /\ [][Next]_vars

\* two callers whose calls overlap, store queries may fail
SpecConcFail == InitConcFail /\ [][Next]_vars

(***************************************************************************)
(* utils/confidenceScoring.ts: calculateEnhancedConfidence                 *)
(***************************************************************************)

\* the engine's variables, which the scorer and the matcher leave alone
engineVars ==
  <<people, companies, aliases, overrides, useDatabaseFallback,
    personMemoryStore, calls, prev, ncalls, nfail, storeFails, concurrent>>

\* an engine nobody calls
InitUnused ==
  /\ people = <<>>
  /\ companies = <<TribeCompany>>
  /\ aliases = <<>>
  /\ overrides = <<>>
  /\ useDatabaseFallback = TRUE
  /\ personMemoryStore = <<>>
  /\ calls = [p \in Procs |-> IdleCall]
  /\ prev = NoPrev
  /\ ncalls = 0
  /\ nfail = 0
  /\ storeFails = FALSE
  /\ concurrent = FALSE

\* nameMatchScore, timeDecay and interactionHistory on both sides of every
\* threshold the scorer compares them with
NameMatchScores == {0, 550000, 650000, 800000, 950000, 1000000}
TimeDecays == {0, 100000, 300000, 600000, 1000000}
InteractionHistories == {0, 1, 3, 6}

ConfidenceSignals ==
  [emailMatch : BOOLEAN, nameMatchScore : NameMatchScores,
   domainMatch : BOOLEAN, aliasMatch : BOOLEAN,
   interactionHistory : InteractionHistories, manualVerification : BOOLEAN,
   timeDecay : TimeDecays,
   contextualClues : [titleMatch : BOOLEAN, companyMatch : BOOLEAN,
                      slackHandleMatch : BOOLEAN]]

\* the optional person argument: what of the record the scorer looks at
NoScoredPerson == [given |-> FALSE]
ScoredPerson(emails, general, extras) ==
  [given |-> TRUE, emails |-> emails, title |-> general, company_id |-> general,
   linkedin_url |-> extras, slack_handles |-> extras, notable_facts |-> extras,
   aliases |-> extras]
ScoredPersons ==
  {NoScoredPerson, ScoredPerson(1, FALSE, FALSE), ScoredPerson(1, TRUE, FALSE),
   ScoredPerson(2, TRUE, TRUE)}

\* JavaScript numbers.  A double x near a whole number of hundredths is the
\* pair [n, d] with x * 100 * 2^60 = n * 2^60 + d: n hundredths and an error
\* of d, exactly.  Every number the scorer computes is of this kind.
Sign(x) == IF x > 0 THEN 1 ELSE IF x < 0 THEN -1 ELSE 0

Zero == [n |-> 0, d |-> 0]

\* 2^j modulo 200
RECURSIVE Pow2Mod200(_)
Pow2Mod200(j) == IF j = 0 THEN 1 ELSE (2 * Pow2Mod200(j - 1)) % 200

\* 2^(52+k) modulo 200, for every k that Binade gives
Pow2Mod200Of == [k \in 0..8 |-> Pow2Mod200(52 + k)]

\* the k with 2^-k <= x < 2^-k+1, for x of n hundredths, from k upwards;
\* above tells whether x is at least n hundredths
RECURSIVE Binade(_, _, _)
Binade(n, above, k) ==
  IF n * 2^k > 100 \/ (n * 2^k = 100 /\ above) THEN k
  ELSE Binade(n, above, k + 1)

\* the double on the grid of binade k nearest to n/100 + (D/s + e)/(100 * 2^60),
\* where a is n * 2^(52+k) modulo 100, odd tells whether n * 2^(52+k) \div 100
\* is odd, r0 is the distance to the grid point below n/100 and G the grid
NearestOnGrid(n, G, s, eps, odd, r0, low) ==
  LET t  == r0 \div (s * G)
      R  == r0 % (s * G)
      up == \/ 2 * R > s * G
            \/ 2 * R = s * G /\ (eps > 0 \/ (eps = 0 /\ (odd = (t % 2 = 0))))
  IN [n |-> n, d |-> G * (t + (IF up THEN 1 ELSE 0)) - low]

NearestInBinade(n, D, s, eps, k, c) ==
  NearestOnGrid(n, 100 * 2^(8 - k), s, eps, c >= 100,
                s * (c % 100) * 2^(8 - k) + D, (c % 100) * 2^(8 - k))

NearestFrom(n, D, s, eps, k) ==
  NearestInBinade(n, D, s, eps, k, ((n % 200) * Pow2Mod200Of[k]) % 200)

\* the double nearest to the positive number n/100 + (D/s + e)/(100 * 2^60),
\* where e is tiny and of sign eps: 53 significant bits, ties to even
Nearest(n, D, s, eps) ==
  IF n = 0 /\ D = 0 THEN Zero
  ELSE NearestFrom(n, D, s, eps, Binade(n, D > 0 \/ (D = 0 /\ eps >= 0), 0))

\* the doubles nearest to the hundredths from 0 to 1
Hundredths == [n \in 0..100 |-> Nearest(n, 0, 1, 0)]

\* the double a decimal literal denotes; x is the literal times 1,000,000
Float(x) ==
  IF x < 0 THEN [n |-> x \div 10000, d |-> -Hundredths[(-x) \div 10000].d]
  ELSE Hundredths[x \div 10000]

\* x + y
Plus(x, y) == Nearest(x.n + y.n, x.d + y.d, 1, 0)

\* x * y
Times(x, y) ==
  Nearest((x.n * y.n) \div 100, x.n * y.d + y.n * x.d, 100, Sign(x.d) * Sign(y.d))

\* x < y
Less(x, y) == x.n < y.n \/ (x.n = y.n /\ x.d < y.d)

\* terms[1] + terms[2] + ..., added to acc from left to right
RECURSIVE SumFrom(_, _)
SumFrom(acc, terms) ==
  IF terms = <<>> THEN acc ELSE SumFrom(Plus(acc, Head(terms)), Tail(terms))

\* x * 100 is within rounding error of the whole number x.n
Nominal(x) == x.n * 10000

Bonus(cond, amount) == IF cond THEN Float(amount) ELSE Zero

\* x as it is, however large
Unbounded(x) == x

\* Math.min(1.0, x)
Min1(x) == IF Less(Float(1000000), x) THEN Float(1000000) ELSE x

\* Math.min(1.0, Math.max(0, x))
Clamp01(x) == Min1(IF Less(x, Zero) THEN Zero ELSE x)

\* an email bonus that looks at the domain match first
EmailIdentityDomainFirst(signals) ==
  IF signals.domainMatch THEN Float(300000)
  ELSE IF signals.emailMatch THEN Float(500000) ELSE Zero

\* the one bonus for the email: 0.5 for an email match, else 0.3 for a
\* domain match
EmailIdentity(signals) ==
  IF signals.emailMatch THEN Float(500000)
  ELSE IF signals.domainMatch THEN Float(300000) ELSE Zero

NameIdentity(nameMatchScore) ==
  IF nameMatchScore > 900000 THEN Float(400000)
  ELSE IF nameMatchScore > 700000 THEN Float(250000)
  ELSE IF nameMatchScore > 500000 THEN Float(100000) ELSE Zero

\* identityScore before manual verification is looked at
SignalIdentity(signals) ==
  SumFrom(Zero,
    << EmailIdentity(signals), NameIdentity(signals.nameMatchScore),
       Bonus(signals.aliasMatch, 200000),
       Bonus(signals.contextualClues.titleMatch, 100000),
       Bonus(signals.contextualClues.companyMatch, 150000),
       Bonus(signals.contextualClues.slackHandleMatch, 100000) >>)

identityScore(signals) ==
  IF signals.manualVerification
  THEN Min1(Plus(SignalIdentity(signals), Float(300000)))
  ELSE SignalIdentity(signals)

PersonCompleteness(person) ==
  SumFrom(Zero,
    << Bonus(person.emails > 1, 100000), Bonus(person.title, 200000),
       Bonus(person.company_id, 200000), Bonus(person.linkedin_url, 150000),
       Bonus(person.slack_handles, 100000), Bonus(person.notable_facts, 150000),
       Bonus(person.aliases, 100000) >>)

completenessScore(person) ==
  Plus(IF person.given THEN PersonCompleteness(person) ELSE Zero, Float(200000))

DecayFreshness(timeDecay) ==
  IF timeDecay > 800000 THEN Float(300000)
  ELSE IF timeDecay > 500000 THEN Float(200000)
  ELSE IF timeDecay < 200000 THEN Float(-200000) ELSE Zero

HistoryFreshness(interactionHistory) ==
  IF interactionHistory > 5 THEN Float(200000)
  ELSE IF interactionHistory > 1 THEN Float(100000) ELSE Zero

freshnessScore(signals) ==
  SumFrom(Float(500000),
    << DecayFreshness(signals.timeDecay),
       HistoryFreshness(signals.interactionHistory) >>)

WeakSignals(signals) == ~signals.emailMatch /\ signals.nameMatchScore < 700000

reliabilityScore(signals) ==
  SumFrom(Float(400000),
    << Bonus(signals.manualVerification, 400000),
       Bonus(signals.emailMatch, 300000),
       Bonus(signals.interactionHistory > 0, 200000),
       Bonus(signals.contextualClues.companyMatch /\ signals.domainMatch, 100000),
       Bonus(WeakSignals(signals), -200000) >>)

breakdown(signals, person) ==
  [identity |-> Min1(identityScore(signals)),
   completeness |-> Min1(completenessScore(person)),
   freshness |-> Clamp01(freshnessScore(signals)),
   reliability |-> Clamp01(reliabilityScore(signals))]

weights ==
  [identity |-> Float(400000), reliability |-> Float(300000),
   completeness |-> Float(200000), freshness |-> Float(100000)]

\* facet * weight
Weighted(facet, weight) == Times(facet, weight)

\* the weighted sum of the facets
WeightedScore(b) ==
  SumFrom(Weighted(b.identity, weights.identity),
    << Weighted(b.reliability, weights.reliability),
       Weighted(b.completeness, weights.completeness),
       Weighted(b.freshness, weights.freshness) >>)

\* Math.round(x * 100) / 100; on a tie the floating-point sum decides, up
\* tells which way
Round2(x, up) ==
  IF x % 10000 = 5000
  THEN (IF up THEN x + 5000 ELSE x - 5000)
  ELSE ((x + 5000) \div 10000) * 10000

ScoreFlags(finalScore) ==
  IF Less(finalScore, Float(300000))
  THEN {"Very low confidence - review needed"}
  ELSE IF Less(finalScore, Float(500000))
  THEN {"Low confidence - verify if possible"}
  ELSE {}

SignalFlags(signals) ==
  (IF signals.nameMatchScore > 500000 /\ signals.nameMatchScore <= 700000
      /\ signals.nameMatchScore < 600000
   THEN {"Low name similarity - verify manually"} ELSE {})
  \cup (IF signals.timeDecay <= 500000 /\ signals.timeDecay < 200000
        THEN {"Old data - may be outdated"} ELSE {})
  \cup (IF WeakSignals(signals) THEN {"Weak identification signals"} ELSE {})

ConfidenceResult(b, finalScore, signals, up) ==
  [finalScore |-> Round2(Nominal(finalScore), up),
   breakdown |-> [identity |-> Round2(Nominal(b.identity), up),
                  completeness |-> Round2(Nominal(b.completeness), up),
                  freshness |-> Round2(Nominal(b.freshness), up),
                  reliability |-> Round2(Nominal(b.reliability), up)],
   riskFlags |-> SignalFlags(signals) \cup ScoreFlags(finalScore)]

calculateEnhancedConfidence(signals, person, up) ==
  ConfidenceResult(breakdown(signals, person),
                   WeightedScore(breakdown(signals, person)), signals, up)

\* a caller holds signals and an optional person record
InitScoring ==
  /\ InitUnused
  /\ matching = NoMatching
  /\ \E signals \in ConfidenceSignals, person \in ScoredPersons :
       scoring = [pc |-> "signals", signals |-> signals, person |-> person]

\* the caller applies calculateEnhancedConfidence
Score ==
  /\ scoring.pc = "signals"
  /\ \E up \in BOOLEAN :
       scoring' = [pc |-> "scored", signals |-> scoring.signals,
                   person |-> scoring.person,
                   result |-> calculateEnhancedConfidence(
                                scoring.signals, scoring.person, up)]
  /\ UNCHANGED <<engineVars, matching>>

NextScoring == Score

\* calculateEnhancedConfidence applied to every combination of signals
SpecScoring == InitScoring /\ [][NextScoring]_vars

(***************************************************************************)
(* utils/fuzzyMatching.ts applied on its own                               *)
(***************************************************************************)

UpperAT == <<"A", "T", "@", "I", "N", ".", "C", "O">>
LowerAlTo == <<"a", "l", " ", "t", "o">>
AlTu == <<"A", "l", " ", "T", "u">>
JohnSmith == <<"J", "o", "h", "n", " ", "S", "m", "i", "t", "h">>
SpacedJohnSmith == <<" ", "J", "o", "h", "n", " ", " ", " ", "S", "m", "i", "t", "h", " ">>
MaryJane == <<"M", "a", "r", "y", "-", "J", "a", "n", "e", " ", "O", "'", "N", "e", "i", "l">>
AnnBeaCox == <<"A", "n", "n", " ", "B", "e", "a", " ", "C", "o", "x">>
JoJo == <<"J", "o", " ", "J", "o">>
Dots == <<".", ".", ".">>
DotsApart == <<".", " ", ".">>
Smith == <<"s", "m", "i", "t", "h">>
Smyth == <<"s", "m", "y", "t", "h">>
Kitten == <<"k", "i", "t", "t", "e", "n">>
Sitting == <<"s", "i", "t", "t", "i", "n", "g">>

\* match candidates: a name with the primary email of its row, and aliases
MatchCandidates ==
  { [id |-> 1, name |-> AlTo, email |-> AL, aliases |-> <<>>],
    [id |-> 2, name |-> BoXu, email |-> AT, aliases |-> <<>>],
    [id |-> 3, name |-> AlTo, email |-> Null, aliases |-> <<>>],
    [id |-> 4, name |-> AlTu, email |-> SA, aliases |-> <<>>],
    [id |-> 5, name |-> BoXu, email |-> U, aliases |-> <<AlTo>>] }

MaxCandidates == 3

\* the lists of at most MaxCandidates different candidates, in every order
CandidateLists ==
  UNION { {cs \in [1..n -> MatchCandidates] :
             \A i, j \in 1..n : i # j => cs[i] # cs[j]} : n \in 0..MaxCandidates }

MatchQueries ==
  [email : {Null, AT, UpperAT, SA}, displayName : {Null, AlTo, LowerAlTo, BoXu}]

Thresholds == {600000, FuzzyThreshold}

SimilarityStrings == {Empty, Smith, Smyth, Kitten, Sitting, AlTo, LowerAlTo}

TokenNames ==
  {Empty, Null, NotAString, Dots, DotsApart, AlTo, JohnSmith, SpacedJohnSmith,
   MaryJane, AnnBeaCox, JoJo, Smith}

\* a caller holds the arguments of one of the three functions
InitMatching ==
  /\ InitUnused
  /\ scoring = NoScoring
  /\ \/ \E q \in MatchQueries, cs \in CandidateLists, th \in Thresholds :
          matching = [pc |-> "query", input |-> q, candidates |-> cs,
                      threshold |-> th]
     \/ \E a \in SimilarityStrings, b \in SimilarityStrings :
          matching = [pc |-> "strings", str1 |-> a, str2 |-> b]
     \/ \E name \in TokenNames :
          matching = [pc |-> "name", name |-> name]

FindBestMatches ==
  /\ matching.pc = "query"
  /\ matching' = [pc |-> "matches", input |-> matching.input,
                  candidates |-> matching.candidates,
                  threshold |-> matching.threshold,
                  results |-> findBestMatches(matching.input,
                                matching.candidates, matching.threshold)]
  /\ UNCHANGED <<engineVars, scoring>>

StringSimilarity ==
  /\ matching.pc = "strings"
  /\ matching' = [pc |-> "similarity", str1 |-> matching.str1,
                  str2 |-> matching.str2,
                  result |-> stringSimilarity(matching.str1, matching.str2)]
  /\ UNCHANGED <<engineVars, scoring>>

GenerateFuzzyTokens ==
  /\ matching.pc = "name"
  /\ matching' = [pc |-> "tokens", name |-> matching.name,
                  result |-> generateFuzzyTokens(matching.name)]
  /\ UNCHANGED <<engineVars, scoring>>

NextMatching ==
  \/ FindBestMatches
  \/ StringSimilarity
  \/ GenerateFuzzyTokens

\* the matcher's functions applied to every input above
SpecMatching == InitMatching /\ [][NextMatching]_vars

(***************************************************************************)
(* Properties of resolveAttendee                                           *)
(***************************************************************************)

\* the call of p has returned a result
Done(p) == calls[p].pc = "done"

\* the call of p left the four collections as it found them
StoreUntouched(p) ==
  /\ people = calls[p].pre.people
  /\ companies = calls[p].pre.companies
  /\ aliases = calls[p].pre.aliases
  /\ personMemoryStore = calls[p].pre.personMemoryStore

\* the call of p repeats the arguments of the call completed before it
RepeatsPrev(p) ==
  /\ prev.pc = "done"
  /\ prev.email = calls[p].email
  /\ prev.displayName = calls[p].displayName

\* the persons, of either store, that hold email
HoldersOf(email) ==
  {<<"db", i>> : i \in {j \in ActivePeople : email \in Range(people[j].emails)}}
    \cup {<<"mem", i>> : i \in {j \in DOMAIN personMemoryStore :
                                  email \in Range(personMemoryStore[j].emails)}}

\* C1: whenever an override whose source identifier is the cleaned email
\* names an existing target Person, a completed call returns that Person with
\* method manual_override and leaves people, companies and aliases untouched.
C1_OverridePrecedence ==
  \A p \in Procs :
    Done(p) =>
      \A k \in DOMAIN overrides :
        (/\ overrides[k].source_identifier = calls[p].email
         /\ overrides[k].target_person_id \in DOMAIN calls[p].pre.people)
        => /\ calls[p].result.method = "manual_override"
           /\ calls[p].result.person = [store |-> "db",
                                        id |-> overrides[k].target_person_id]
           /\ StoreUntouched(p)

\* C2: a second consecutive call with the same (email, displayName) creates
\* nothing more -- the two calls together add at most one Person and at most
\* one alias -- and returns the Person of the first call by exact_email.
C2_Idempotent ==
  \A p \in Procs :
    (/\ Done(p)
     /\ Truthy(calls[p].email)
     /\ RepeatsPrev(p)
     /\ prev.result.method \in {"exact_email", "fuzzy_name", "alias_match",
                                "domain_match", "internal_inference",
                                "unresolved"})
    => /\ Len(people) + Len(personMemoryStore)
            <= Len(prev.pre.people) + Len(prev.pre.personMemoryStore) + 1
       /\ Len(aliases) <= Len(prev.pre.aliases) + 1
       /\ calls[p].result.method = "exact_email"
       /\ calls[p].result.person = prev.result.person

\* C3: under overlapping calls no email address is ever held by two Person
\* records.
C3_EmailUnique ==
  \A i, j \in DOMAIN people :
    i # j => Range(people[i].emails) \cap Range(people[j].emails) = {}

Methods ==
  {"manual_override", "exact_email", "fuzzy_name", "alias_match",
   "domain_match", "internal_inference", "unresolved"}

\* C4: whichever store queries fail, a call with a non-empty email never
\* raises: it takes at most nine steps, none of which ends it with an
\* exception, and once it is done it holds a result with a method and a Person.
C4_FailuresNeverRaise ==
  \A p \in Procs :
    Truthy(calls[p].rawEmail) =>
      /\ calls[p].pc # "raised"
      /\ Len(calls[p].trace) <= 9
      /\ Done(p) => /\ calls[p].result.method \in Methods
                    /\ calls[p].result.person # NoPerson

\* a call completed although createCompany threw and another query failed
C4_Witness ==
  \E p \in Procs :
    /\ Done(p)
    /\ Truthy(calls[p].rawEmail)
    /\ \E k \in DOMAIN calls[p].trace : calls[p].trace[k] = "createCompanyThrows"
    /\ nfail >= 2

\* C5: once the engine is degraded, a Person created in the memory store is
\* found again: the next call with the same email returns that Person by
\* exact_email, and the email is held by exactly one Person.
C5_FallbackSameLogic ==
  \A p \in Procs :
    (/\ Done(p)
     /\ Truthy(calls[p].email)
     /\ prev.pc = "done"
     /\ prev.email = calls[p].email
     /\ prev.result.person.store = "mem")
    => /\ calls[p].result.method = "exact_email"
       /\ calls[p].result.person = prev.result.person
       /\ Cardinality(HoldersOf(calls[p].email)) = 1

\* C6: a call without display name, for an email no override names, no Person
\* holds and whose domain is personal or missing, returns no Person, confidence
\* 0 and method unresolved, and creates nothing.
C6_TotalFailureCreatesNothing ==
  \A p \in Procs :
    (/\ Done(p)
     /\ Truthy(calls[p].email)
     /\ calls[p].displayName = Null
     /\ \A k \in DOMAIN overrides :
          overrides[k].source_identifier # calls[p].email
     /\ \A i \in DOMAIN calls[p].pre.people :
          calls[p].email \notin Range(calls[p].pre.people[i].emails)
     /\ \/ ~Truthy(DomainOf(calls[p].email))
        \/ isPersonalEmailDomain(DomainOf(calls[p].email)))
    => /\ calls[p].result = [person |-> NoPerson, confidence |-> 0,
                             method |-> "unresolved",
                             created_new_entity |-> FALSE]
       /\ StoreUntouched(p)

\* C7: every domain_match result carries confidence 0.75, created a Person,
\* and that Person is linked to the company whose domain is the email's.
C7_DomainConfidence ==
  \A p \in Procs :
    (Done(p) /\ calls[p].result.method = "domain_match")
    => /\ calls[p].result.confidence = 750000
       /\ calls[p].result.created_new_entity
       /\ calls[p].result.person.store = "db"
       /\ calls[p].result.person.id \in DOMAIN people
       /\ people[calls[p].result.person.id].company_id \in DOMAIN companies
       /\ companies[people[calls[p].result.person.id].company_id].domain
            = DomainOf(calls[p].email)

\* the persons that held email when the call of p began
HeldBefore(p) ==
  {i \in DOMAIN calls[p].pre.people :
     /\ calls[p].pre.people[i].entity_status = "active"
     /\ calls[p].email \in Range(calls[p].pre.people[i].emails)}

\* no override names the email or the display name of the call of p
NoOverrideNames(p) ==
  \A k \in DOMAIN overrides :
    /\ overrides[k].source_identifier # calls[p].email
    /\ overrides[k].source_identifier # calls[p].displayName

C10_MalformedRejected ==
  \A p \in Procs :
    (/\ calls[p].pc \in {"done", "raised"}
     /\ ~Truthy(calls[p].rawEmail)
     /\ NoOverrideNames(p))
    => /\ calls[p].pc = "raised"
       /\ StoreUntouched(p)

\* C11: under overlapping calls the store never holds two alias records with
\* the same person, alias name and (non-empty) alias email.
C11_AliasUnique ==
  \A i, j \in DOMAIN aliases :
    (/\ Truthy(aliases[i].alias_email)
     /\ aliases[i].person_id = aliases[j].person_id
     /\ aliases[i].alias_name = aliases[j].alias_name
     /\ aliases[i].alias_email = aliases[j].alias_email)
    => i = j

\* the alias pair the call of p observed was recorded for its Person before
PairKnown(p) ==
  \E k \in DOMAIN calls[p].pre.aliases :
    /\ calls[p].pre.aliases[k].person_id = calls[p].result.person.id
    /\ calls[p].pre.aliases[k].alias_name = calls[p].displayName
    /\ calls[p].pre.aliases[k].alias_email = calls[p].email

\* C12: a call that ends with a fuzzy match inserts one alias (its Person, its
\* display name, its email) if and only if that Person had no alias with
\* exactly that name and email; a known name with a new email is recorded
\* (all emails involved being non-empty).
C12_AliasExactPair ==
  \A p \in Procs :
    (/\ Done(p)
     /\ Truthy(calls[p].email)
     /\ \A k \in DOMAIN calls[p].pre.aliases :
          Truthy(calls[p].pre.aliases[k].alias_email)
     /\ calls[p].result.method \in {"fuzzy_name", "alias_match"})
    => IF PairKnown(p)
       THEN aliases = calls[p].pre.aliases
       ELSE /\ Len(aliases) = Len(calls[p].pre.aliases) + 1
            /\ SubSeq(aliases, 1, Len(calls[p].pre.aliases)) = calls[p].pre.aliases
            /\ aliases[Len(aliases)].person_id = calls[p].result.person.id
            /\ aliases[Len(aliases)].alias_name = calls[p].displayName
            /\ aliases[Len(aliases)].alias_email = calls[p].email

\* C13: a manual_override result carries the confidence recorded on the
\* override that was applied, whatever the confidence of its target Person.
C13_OverrideConfidence ==
  \A p \in Procs :
    (/\ Done(p)
     /\ Truthy(calls[p].email)
     /\ calls[p].result.method = "manual_override")
    => /\ calls[p].row \in DOMAIN overrides
       /\ calls[p].result.confidence = overrides[calls[p].row].confidence

\* C14: whichever store queries fail, no two Company records share a domain.
C14_CompanyDomainUnique ==
  \A i, j \in DOMAIN companies :
    (Truthy(companies[i].domain) /\ companies[i].domain = companies[j].domain)
    => i = j

\* C20: once a store call has failed, at whichever call site of the
\* orchestrator, the engine is in fallback mode (it no longer uses the
\* database), for the rest of that call and for every later call.
C20_FailureDegrades ==
  (nfail > 0 /\ \A p \in Procs : Running(p) => Truthy(calls[p].email))
    => ~useDatabaseFallback

\* every call made so far by a caller was given a non-empty email
EmailsGiven == \A p \in Procs : calls[p].pc # "idle" => Truthy(calls[p].email)

\* C21: once useDatabaseFallback is false it stays false, and from then on
\* no step of resolveAttendee queries the store: no query fails and no row
\* of people, companies or person_aliases is written.
C21_FallbackFinal ==
  [][(~useDatabaseFallback /\ EmailsGiven)
       => /\ ~useDatabaseFallback'
          /\ nfail' = nfail
          /\ people' = people
          /\ companies' = companies
          /\ aliases' = aliases]_vars

\* the call of p is done, for a non-empty email, by the fuzzy step
FuzzyBound(p) ==
  /\ Done(p)
  /\ Truthy(calls[p].email)
  /\ calls[p].result.method \in {"fuzzy_name", "alias_match"}

\* the persons that were active when the call of p began
ActiveBefore(p) ==
  {i \in DOMAIN calls[p].pre.people :
     calls[p].pre.people[i].entity_status = "active"}

\* the match of the query of p with person i as the call found it
MatchBefore(p, i) ==
  MatchOne(OrEmpty(calls[p].displayName), OrEmpty(calls[p].email),
           CandidateOf(calls[p].pre.people, calls[p].pre.aliases, i))

\* an override with an existing target names the email or display name of p
OverrideApplies(p) ==
  LET row == OverrideRow(calls[p].email, calls[p].displayName)
  IN row # 0 /\ overrides[row].target_person_id \in DOMAIN calls[p].pre.people

\* C22: a call returns fuzzy_name or alias_match only if it was given a
\* display name and neither an override nor an exact email match applied;
\* the Person it binds is then an active Person whose match score is the
\* highest of all candidates and at least 0.7, the confidence is that score,
\* the method is alias_match exactly when the match type is alias, the
\* Person's interaction count has grown by one, and no Person or Company
\* has been created.
C22_FuzzyStep ==
  \A p \in Procs :
    FuzzyBound(p) =>
      LET c  == calls[p]
          id == c.result.person.id
      IN /\ Truthy(c.displayName)
         /\ ~OverrideApplies(p)
         /\ HeldBefore(p) = {}
         /\ c.result.person.store = "db"
         /\ id \in ActiveBefore(p)
         /\ c.result.confidence = MatchBefore(p, id).score
         /\ c.result.confidence >= FuzzyThreshold
         /\ \A j \in ActiveBefore(p) :
              MatchBefore(p, j).score <= MatchBefore(p, id).score
         /\ (c.result.method = "alias_match")
              <=> (MatchBefore(p, id).matchType = "alias")
         /\ people[id].interaction_count
              = c.pre.people[id].interaction_count + 1
         /\ Len(people) = Len(c.pre.people)
         /\ companies = c.pre.companies
         /\ personMemoryStore = c.pre.personMemoryStore
         /\ ~c.result.created_new_entity

\* a call has been resolved by the fuzzy step with a score below 1
C22_Witness ==
  \E p \in Procs :
    /\ FuzzyBound(p)
    /\ calls[p].result.confidence < 1000000

\* the call of p is done, for a non-empty email and a display name, and
\* none of the override, exact-email, fuzzy and domain steps bound a Person
NewPersonStep(p) ==
  /\ Done(p)
  /\ Truthy(calls[p].email)
  /\ Truthy(calls[p].displayName)
  /\ calls[p].result.method \notin {"manual_override", "exact_email", "fuzzy_name",
                                    "alias_match", "domain_match"}

\* the email domain of the call of p contains the internal-company marker
InternalDomain(p) ==
  Includes(toLowerCase(DomainOf(calls[p].email)), <<"t","r","i","b","e">>)

\* C23: a call with a display name that no earlier step bound creates exactly
\* one Person and returns it with created_new_entity; for an email domain
\* with the internal marker the Person is internal, the result is 0.8 and
\* internal_inference and the Person is linked to the internal Company when
\* there is one; otherwise the result is 0.25 and unresolved.
C23_NewPersonStep ==
  \A p \in Procs :
    NewPersonStep(p) =>
      LET c  == calls[p]
          id == c.result.person.id
      IN /\ c.result.created_new_entity
         /\ c.result.person.store = "db"
         /\ Len(people) = Len(c.pre.people) + 1
         /\ id = Len(people)
         /\ InternalDomain(p)
              => /\ people[id].person_type = "internal"
                 /\ c.result.confidence = InternalConfidence
                 /\ c.result.method = "internal_inference"
                 /\ (\E k \in DOMAIN c.pre.companies :
                       c.pre.companies[k].company_type = "internal")
                      => /\ people[id].company_id \in DOMAIN companies
                         /\ companies[people[id].company_id].company_type
                              = "internal"
         /\ ~InternalDomain(p)
              => /\ c.result.confidence = UnknownConfidence
                 /\ c.result.method = "unresolved"

\* the name score of the display name of p against person i, its aliases
\* included, as the call found them
NameScoreBefore(p, i) ==
  calculateNameMatchScore(
    OrEmpty(calls[p].displayName),
    CandidateOf(calls[p].pre.people, calls[p].pre.aliases, i).name,
    CandidateOf(calls[p].pre.people, calls[p].pre.aliases, i).aliases)

\* no Person and no alias held the email of p when the call began
EmailUnknownBefore(p) ==
  /\ \A i \in DOMAIN calls[p].pre.people :
       calls[p].email \notin Range(calls[p].pre.people[i].emails)
  /\ \A k \in DOMAIN calls[p].pre.aliases :
       calls[p].pre.aliases[k].alias_email # calls[p].email

\* the call of p is done, for an unknown email and a display name that is
\* no known Person's name: every name score is below 0.7
StrangerCall(p) ==
  /\ Done(p)
  /\ Truthy(calls[p].email)
  /\ Truthy(calls[p].displayName)
  /\ NoOverrideNames(p)
  /\ EmailUnknownBefore(p)
  /\ \A i \in DOMAIN calls[p].pre.people : NameScoreBefore(p, i) < FuzzyThreshold

\* C28: a call with an unknown email and a display name whose name score
\* against every known Person is below 0.7 is not bound by the fuzzy step to
\* a Person that existed before the call, even when the email's domain is
\* that of a known Person's primary email.
C28_DomainAloneNeverBinds ==
  \A p \in Procs :
    StrangerCall(p) =>
      /\ calls[p].result.method \notin {"fuzzy_name", "alias_match"}
      /\ calls[p].result.person.store = "db"
           => calls[p].result.person.id \notin DOMAIN calls[p].pre.people

\* the methods of EntityResolutionResult
EntityResolutionMethods ==
  {"exact_email", "domain_match", "name_similarity", "manual", "unresolved",
   "manual_override", "fuzzy_name", "alias_match", "internal_inference"}

\* the number of Persons, stored or in memory, that the call of p has added
PeopleAdded(p) ==
  (Len(people) - Len(calls[p].pre.people))
  + (Len(personMemoryStore) - Len(calls[p].pre.personMemoryStore))

\* C29: every result a call returns has a confidence between 0 and 1 and a
\* method of the enumeration; created_new_entity is true only with a Person
\* bound and method domain_match, unresolved or internal_inference, and
\* exactly the results with created_new_entity added one Person during the
\* call; results by manual_override, exact_email, fuzzy_name or alias_match
\* added no Person and no Company; a result without a Person has confidence
\* 0.0 and method unresolved.
C29_ResultWellFormed ==
  \A p \in Procs :
    Done(p) =>
      LET r == calls[p].result IN
      /\ 0 <= r.confidence /\ r.confidence <= 1000000
      /\ r.method \in EntityResolutionMethods
      /\ r.created_new_entity
           => /\ r.person # NoPerson
              /\ r.method \in {"domain_match", "unresolved", "internal_inference"}
      /\ PeopleAdded(p) = (IF r.created_new_entity THEN 1 ELSE 0)
      /\ r.method \in {"manual_override", "exact_email", "fuzzy_name", "alias_match"}
           => /\ PeopleAdded(p) = 0
              /\ Len(companies) = Len(calls[p].pre.companies)
      /\ r.person = NoPerson
           => r.confidence = 0 /\ r.method = "unresolved"

\* a call has created a Company and a Person and returned domain_match
C29_Witness ==
  \E p \in Procs :
    /\ Done(p)
    /\ calls[p].result.created_new_entity
    /\ calls[p].result.method = "domain_match"
    /\ Len(companies) > Len(calls[p].pre.companies)
    /\ PeopleAdded(p) = 1

\* the emails of a record
EmailsOf(person) == {person.emails[k] : k \in DOMAIN person.emails}

\* every record of before is a record of after, with the emails it had and
\* an interaction count that is not lower
PeopleKept(before, after) ==
  /\ DOMAIN before \subseteq DOMAIN after
  /\ \A i \in DOMAIN before :
       /\ EmailsOf(before[i]) \subseteq EmailsOf(after[i])
       /\ before[i].interaction_count <= after[i].interaction_count

\* C27: no step of a resolveAttendee call, with calls in sequence or
\* overlapping and the store answering or failing, deletes a Person or a
\* Company, removes an email from a Person or lowers an interaction count:
\* the ids of the Persons and of the Companies and every interaction count
\* never decrease from one state to the next.
C27_RecordsOnlyGrow ==
  [][/\ PeopleKept(people, people')
     /\ PeopleKept(personMemoryStore, personMemoryStore')
     /\ DOMAIN companies \subseteq DOMAIN companies']_vars

\* overlapping calls, one failed query: a Person was created in memory and
\* a stored Person's interaction was counted
C27_Witness ==
  /\ concurrent
  /\ nfail > 0
  /\ personMemoryStore # <<>>
  /\ \E i \in DOMAIN people :
       /\ people[i].last_interaction = "today"
       /\ people[i].interaction_count > 0

(***************************************************************************)
(* Properties of calculateEnhancedConfidence                               *)
(***************************************************************************)

\* an exact email match, manually verified, and no other signal
VerifiedEmailOnly(signals) ==
  /\ signals.emailMatch
  /\ signals.manualVerification
  /\ signals.nameMatchScore = 0
  /\ ~signals.domainMatch
  /\ ~signals.aliasMatch
  /\ signals.interactionHistory = 0
  /\ signals.contextualClues =
       [titleMatch |-> FALSE, companyMatch |-> FALSE, slackHandleMatch |-> FALSE]

\* C15: for a verified exact email match with no other signal and no person
\* record, the scorer returns identity facet 1.0 and a final score of at
\* least 0.7.
C15_VerifiedEmail ==
  (/\ scoring.pc = "scored"
   /\ VerifiedEmailOnly(scoring.signals)
   /\ ~scoring.person.given)
  => /\ scoring.result.breakdown.identity = 1000000
     /\ scoring.result.finalScore >= 700000

\* the facets and the final score of a result
ScoresOf(result) ==
  {result.breakdown.identity, result.breakdown.completeness,
   result.breakdown.freshness, result.breakdown.reliability, result.finalScore}

\* C25: whatever the signals and the person record, the four facets and the
\* final score that calculateEnhancedConfidence returns lie between 0 and 1.
C25_ScorerRange ==
  scoring.pc = "scored" =>
    \A x \in ScoresOf(scoring.result) : 0 <= x /\ x <= 1000000

\* the identity bonuses add up to more than 1 and the result is 1
C25_Witness ==
  /\ scoring.pc = "scored"
  /\ scoring.signals.emailMatch
  /\ scoring.signals.nameMatchScore > 900000
  /\ scoring.signals.aliasMatch
  /\ scoring.result.breakdown.identity = 1000000

\* the sum of the identity bonuses, in millionths, with one bonus for the
\* email: 0.5 for an email match, else 0.3 for a domain match
IdentityBonuses(signals) ==
  (IF signals.emailMatch THEN 500000
   ELSE IF signals.domainMatch THEN 300000 ELSE 0)
  + (IF signals.nameMatchScore > 900000 THEN 400000
     ELSE IF signals.nameMatchScore > 700000 THEN 250000
     ELSE IF signals.nameMatchScore > 500000 THEN 100000 ELSE 0)
  + (IF signals.aliasMatch THEN 200000 ELSE 0)
  + (IF signals.manualVerification THEN 300000 ELSE 0)
  + (IF signals.contextualClues.titleMatch THEN 100000 ELSE 0)
  + (IF signals.contextualClues.companyMatch THEN 150000 ELSE 0)
  + (IF signals.contextualClues.slackHandleMatch THEN 100000 ELSE 0)

\* ten times the weighted sum of the returned facets
TenfoldWeightedSum(b) ==
  4 * b.identity + 3 * b.reliability + 2 * b.completeness + b.freshness

\* the returned final score is the weighted sum of the returned facets
FormulaHolds(result) == 10 * result.finalScore = TenfoldWeightedSum(result.breakdown)

\* the returned identity facet counts one email bonus
OneEmailBonus(signals, result) ==
  result.breakdown.identity =
    (IF IdentityBonuses(signals) > 1000000 THEN 1000000
     ELSE IdentityBonuses(signals))

\* the two score flags go with the returned final score
FlagsFollowScore(result) ==
  /\ "Very low confidence - review needed" \in result.riskFlags
       <=> result.finalScore < 300000
  /\ "Low confidence - verify if possible" \in result.riskFlags
       <=> (300000 <= result.finalScore /\ result.finalScore < 500000)

\* C26: for every combination of signals the returned final score is
\* identity*0.4 + reliability*0.3 + completeness*0.2 + freshness*0.1 of the
\* returned facets, the identity facet counts at most one email bonus (0.5 for
\* an email match, else 0.3 for a domain match), and the flags 'Very low
\* confidence' and 'Low confidence' are present exactly when the returned
\* final score is below 0.3, respectively in [0.3, 0.5).
C26_ScorerFormula ==
  scoring.pc = "scored" =>
    /\ FormulaHolds(scoring.result)
    /\ OneEmailBonus(scoring.signals, scoring.result)
    /\ FlagsFollowScore(scoring.result)

\* the signal sets that differ from signals in one signal, which is
\* positive where it was not, or higher
OneMoreSignal(signals) ==
  ({[signals EXCEPT !.emailMatch = TRUE],
    [signals EXCEPT !.domainMatch = TRUE],
    [signals EXCEPT !.aliasMatch = TRUE],
    [signals EXCEPT !.manualVerification = TRUE],
    [signals EXCEPT !.contextualClues.titleMatch = TRUE],
    [signals EXCEPT !.contextualClues.companyMatch = TRUE],
    [signals EXCEPT !.contextualClues.slackHandleMatch = TRUE]} \ {signals})
  \cup {[signals EXCEPT !.nameMatchScore = x] :
          x \in {y \in NameMatchScores : y > signals.nameMatchScore}}
  \cup {[signals EXCEPT !.timeDecay = x] :
          x \in {y \in TimeDecays : y > signals.timeDecay}}
  \cup {[signals EXCEPT !.interactionHistory = x] :
          x \in {y \in InteractionHistories : y > signals.interactionHistory}}

\* C30: for the same person record, a signal set with one more positive
\* signal (a boolean switched to true, or a higher name match score, time
\* decay or interaction history) gets a final score that is not lower.
C30_ScorerMonotone ==
  scoring.pc = "scored" =>
    \A more \in OneMoreSignal(scoring.signals) :
      calculateEnhancedConfidence(more, scoring.person, TRUE).finalScore
        >= scoring.result.finalScore

\* a scored signal set without email match that has stronger signal sets
C30_Witness ==
  /\ scoring.pc = "scored"
  /\ ~scoring.signals.emailMatch
  /\ scoring.signals.domainMatch
  /\ scoring.signals.nameMatchScore < 700000
  /\ scoring.signals.timeDecay < 200000
  /\ scoring.result.finalScore > 0

(***************************************************************************)
(* Properties of the matcher                                               *)
(***************************************************************************)

\* the candidate of result r carries the email of the query
HasQueryEmail(r) ==
  /\ Truthy(matching.input.email)
  /\ Truthy(r.candidate.email)
  /\ toLowerCase(r.candidate.email) = toLowerCase(matching.input.email)

\* C16: in the results of findBestMatches for a query with an email, a
\* candidate whose email is the query's comes before every candidate that
\* matched on its name only (exact_name, fuzzy_name or alias).
C16_ExactEmailFirst ==
  matching.pc = "matches" =>
    \A i, j \in DOMAIN matching.results :
      (/\ HasQueryEmail(matching.results[i])
       /\ ~HasQueryEmail(matching.results[j])
       /\ matching.results[j].matchType \in {"exact_name", "fuzzy_name", "alias"})
      => i < j

\* the query name and the name of the candidate of result r are equal once
\* normalised, and the query has no email or another one than the candidate
ExactNameOnly(r) ==
  /\ Truthy(matching.input.displayName)
  /\ trim(toLowerCase(matching.input.displayName))
       = trim(toLowerCase(r.candidate.name))
  /\ ~HasQueryEmail(r)

\* C17: in the results of findBestMatches, a candidate whose normalised name
\* equals the normalised query name and whose email is not the query's has
\* score 0.95 and match type exact_name.
C17_ExactNameScore ==
  matching.pc = "matches" =>
    \A i \in DOMAIN matching.results :
      ExactNameOnly(matching.results[i])
      => /\ matching.results[i].score = 950000
         /\ matching.results[i].matchType = "exact_name"

\* C18: stringSimilarity returns 1.0 when both strings are empty and 0 when
\* exactly one of them is empty.
C18_EmptyStrings ==
  matching.pc = "similarity" =>
    /\ (matching.str1 = Empty /\ matching.str2 = Empty
          => matching.result = 1000000)
    /\ ((matching.str1 = Empty) # (matching.str2 = Empty)
          => matching.result = 0)

\* every character of name is punctuation: no letter, digit or white space
PunctuationOnly(name) ==
  /\ IsString(name)
  /\ name # Empty
  /\ \A i \in DOMAIN name :
       LowerChar(name[i]) \notin AlphaNum /\ name[i] # " "

\* the parts of name that are longer than one character
PartsOfName(name) == IF IsString(name) THEN NameParts(CleanName(name)) ELSE <<>>

HasAbbreviations(tokens, first, last) ==
  /\ first \o <<" ", last[1]>> \in Range(tokens)
  /\ <<first[1], " ">> \o last \in Range(tokens)
  /\ <<first[1], " ", last[1]>> \in Range(tokens)

BestScore(c) ==
  MatchOne(OrEmpty(matching.input.displayName), OrEmpty(matching.input.email),
           c).score

\* where candidate c stands in the candidate list
PlaceOf(c) == CHOOSE i \in DOMAIN matching.candidates : matching.candidates[i] = c

\* C24: findBestMatches returns one entry for each candidate whose best score
\* is at least the threshold and none for the others, each with the score the
\* candidate has on its own, ordered by score descending and, for equal
\* scores, in the order of the candidate list; no candidates, no results.
C24_ThresholdAndRanking ==
  matching.pc = "matches" =>
    LET cs == matching.candidates
        rs == matching.results
    IN /\ \A i \in DOMAIN cs :
            (BestScore(cs[i]) >= matching.threshold)
              <=> (\E k \in DOMAIN rs : rs[k].candidate = cs[i])
       /\ \A k \in DOMAIN rs :
            /\ rs[k].candidate \in Range(cs)
            /\ rs[k].score = BestScore(rs[k].candidate)
       /\ \A k, l \in DOMAIN rs : k # l => rs[k].candidate # rs[l].candidate
       /\ \A k, l \in DOMAIN rs :
            k < l => \/ rs[k].score > rs[l].score
                     \/ /\ rs[k].score = rs[l].score
                        /\ PlaceOf(rs[k].candidate) < PlaceOf(rs[l].candidate)
       /\ cs = <<>> => rs = <<>>

\* of three candidates one stayed below the threshold and the other two
\* came back in the reverse of their order in the candidate list
C24_Witness ==
  /\ matching.pc = "matches"
  /\ Len(matching.results) = 2
  /\ Len(matching.candidates) = 3
  /\ matching.results[1].score > matching.results[2].score
  /\ PlaceOf(matching.results[1].candidate) > PlaceOf(matching.results[2].candidate)

====
